---- MODULE Spec2Model ----
\* Model of src/src/utils/detect.js: the still-image pipeline (detectImage,
\* preprocessing), the frame capture (captureVideo, detectFrame) and the
\* video pump (detectVideo).
EXTENDS Integers, Sequences, FiniteSets, TLC

\* ------------------------------------------------------------------
\* JavaScript Numbers.  The ratios of preprocessing are IEEE-754 doubles.
\* A finite non-zero double is a sign s, a significand of MantBits bits
\* held as three limbs m = <<hi, mid, lo>> (hi of HiBits bits with its top
\* bit set, mid and lo of LimbBits bits) and the exponent e of the top bit:
\* its value is (-1)^s * (hi * Base^2 + mid * Base + lo) * 2^(e - MantBits + 1).
\* ------------------------------------------------------------------
MantBits == 53
LimbBits == 18
HiBits == MantBits - 2 * LimbBits

RECURSIVE Pow2(_)
Pow2(n) == IF n = 0 THEN 1 ELSE 2 * Pow2(n - 1)

Base == Pow2(LimbBits)
HiTop == Pow2(HiBits - 1)

NaN == [k |-> "nan", s |-> 0, m |-> <<0, 0, 0>>, e |-> 0]
Infinity == [k |-> "inf", s |-> 0, m |-> <<0, 0, 0>>, e |-> 0]
Zero == [k |-> "zero", s |-> 0, m |-> <<0, 0, 0>>, e |-> 0]

Abs(n) == IF n < 0 THEN -n ELSE n

\* the binary digits a natural t >= HiTop has beyond HiBits
RECURSIVE Excess(_)
Excess(t) == IF t < 2 * HiTop THEN 0 ELSE 1 + Excess(t \div 2)

\* the significand m rounded up by one unit in the last place
RoundUp(sign, m, e) ==
    IF m[3] + 1 < Base THEN [k |-> "num", s |-> sign, m |-> <<m[1], m[2], m[3] + 1>>, e |-> e]
    ELSE IF m[2] + 1 < Base THEN [k |-> "num", s |-> sign, m |-> <<m[1], m[2] + 1, 0>>, e |-> e]
    ELSE IF m[1] + 1 < 2 * HiTop THEN [k |-> "num", s |-> sign, m |-> <<m[1] + 1, 0, 0>>, e |-> e]
    ELSE [k |-> "num", s |-> sign, m |-> <<HiTop, 0, 0>>, e |-> e + 1]

\* round-to-nearest, ties-to-even: m is the truncated significand, and the
\* discarded part is rem out of unit (rem < unit)
Round(sign, m, e, rem, unit) ==
    IF 2 * rem > unit \/ (2 * rem = unit /\ m[3] % 2 = 1)
    THEN RoundUp(sign, m, e)
    ELSE [k |-> "num", s |-> sign, m |-> m, e |-> e]

\* the largest k with d * 2^k <= a, for a >= d >= 1
RECURSIVE Log2Quot(_, _)
Log2Quot(a, d) == IF 2 * d <= a THEN 1 + Log2Quot(a, 2 * d) ELSE 0

\* the least k with a * 2^k >= d, for a >= 1
RECURSIVE Log2Up(_, _)
Log2Up(a, d) == IF a >= d THEN 0 ELSE 1 + Log2Up(2 * a, d)

\* a / b of two naturals, as JavaScript computes it: num / den is a / b
\* scaled into [1, 2), divided one limb at a time and rounded on the remainder
FDivLo(hi, mid, r2, den, e) ==
    Round(0, <<hi, mid, (r2 * Base) \div den>>, e, (r2 * Base) % den, den)

FDivMid(hi, r1, den, e) ==
    FDivLo(hi, (r1 * Base) \div den, (r1 * Base) % den, den, e)

FDivHi(num, den, e) ==
    FDivMid((num * HiTop) \div den, (num * HiTop) % den, den, e)

FDivScaled(a, b, up, dn) == FDivHi(a * Pow2(dn), b * Pow2(up), up - dn)

FDiv(a, b) ==
    IF b = 0 THEN (IF a = 0 THEN NaN ELSE Infinity)
    ELSE IF a = 0 THEN Zero
    ELSE IF a >= b THEN FDivScaled(a, b, Log2Quot(a, b), 0)
    ELSE FDivScaled(a, b, 0, Log2Up(a, b))

FromInt(n) ==
    IF n = 0 THEN Zero
    ELSE [FDiv(Abs(n), 1) EXCEPT !.s = IF n < 0 THEN 1 ELSE 0]

\* f * (n / 2^sh) for a double f and an integer n, as JavaScript computes
\* the product of f and the (exactly representable) double n / 2^sh: the
\* limbs are multiplied with carries, and the product is cut back to
\* MantBits bits and rounded on what was cut
FMulCut(sign, top, l1, l0, e, unit, up) ==
    Round(sign,
          <<top \div unit,
            (top % unit) * up + l1 \div unit,
            (l1 % unit) * up + l0 \div unit>>,
          e, l0 % unit, unit)

FMulShift(sign, top, l1, l0, e, sft) ==
    FMulCut(sign, top, l1, l0, e + sft, Pow2(sft), Base \div Pow2(sft))

FMulTop(sign, m, n, p1, l0, e) ==
    FMulShift(sign, m[1] * n + p1 \div Base, p1 % Base, l0, e,
              Excess(m[1] * n + p1 \div Base))

FMulMid(sign, m, n, p0, e) ==
    FMulTop(sign, m, n, m[2] * n + p0 \div Base, p0 % Base, e)

FMul(f, n, sh) ==
    IF f.k = "nan" THEN NaN
    ELSE IF f.k = "inf" THEN (IF n = 0 THEN NaN
                              ELSE [Infinity EXCEPT !.s = IF n < 0 THEN 1 - f.s ELSE f.s])
    ELSE IF f.k = "zero" \/ n = 0 THEN Zero
    ELSE FMulMid(IF n < 0 THEN 1 - f.s ELSE f.s, f.m, Abs(n), f.m[3] * Abs(n), f.e - sh)

One == FDiv(1, 1)

\* ------------------------------------------------------------------
\* Bounds of the model
\* ------------------------------------------------------------------
MaxTicks == 3        \* ticks of the pump that are followed
MaxStill == 1        \* direct detectImage calls that are followed
MaxTopk == 2         \* topk is drawn from 1..MaxTopk
MaxModelDim == 2     \* the model input sides are drawn from 1..MaxModelDim
MaxClasses == 2      \* class scores per detection row
MaxRows == 2         \* rows the backend can return in `selected`
MaxScore == 1        \* scores are drawn from 0..MaxScore (in units of 1/2)
MaxDim == 15         \* still image sides are drawn from 0..MaxDim

\* [batch, channels, _, _] model input shapes
InputShapes == {<<1, 3, a, b>> : a \in 1..MaxModelDim, b \in 1..MaxModelDim}

\* what a video element can report: nothing loaded, or a loaded frame
VideoSizes == {<<0, 0>>, <<1, 2>>, <<15, 11>>}
VideoStates == [videoWidth : {sz[1] : sz \in VideoSizes},
                videoHeight : {sz[2] : sz \in VideoSizes},
                srcObject : {"null", "stream"}]
VideoElements == {v \in VideoStates : <<v.videoWidth, v.videoHeight>> \in VideoSizes}

\* the [cx, cy, w, h] of the rows the backend returns
RowBoxes == {<<100, 50, 40, 20>>, <<3, 5, 2, 7>>}
\* the boxes among them that the pump's backend is fed
PumpRowBoxes == {<<100, 50, 40, 20>>}

VARIABLES
    vidSource,   \* the video element: videoWidth, videoHeight, srcObject
    pump,        \* [state, topk, inputShape]: "Idle" until detectVideo is called
    raf,         \* pending requestAnimationFrame(detect) callbacks
    ticks,       \* runs of detect so far
    stills,      \* direct detectImage calls so far
    calls,       \* the detectImage calls in flight (suspended at an await)
    last,        \* the detectImage call that settled most recently
    canvas,      \* the output canvas: cleared, or the boxes last drawn
    unhandled    \* a rejected promise nobody handles has escaped the pump

vars == <<vidSource, pump, raf, ticks, stills, calls, last, canvas, unhandled>>


Max(a, b) == IF a >= b THEN a ELSE b
Min(a, b) == IF a <= b THEN a ELSE b

\* Array.prototype.slice(from, to) and slice(from) on a sequence
Slice(seq, from, to) == SubSeq(seq, from + 1, Min(to, Len(seq)))
SliceFrom(seq, from) == SubSeq(seq, from + 1, Len(seq))

RemoveAt(seq, i) == SubSeq(seq, 1, i - 1) \o SubSeq(seq, i + 1, Len(seq))

\* a Number that was never assigned
Unset == [k |-> "unset", s |-> 0, m |-> <<0, 0, 0>>, e |-> 0]

\* ------------------------------------------------------------------
\* captureVideo: a canvas of the video's size times scaleFactor
\* ------------------------------------------------------------------
CaptureVideo(video, scaleFactor) ==
    LET sf == IF scaleFactor = "null" THEN 1 ELSE scaleFactor
    IN  [width |-> video.videoWidth * sf, height |-> video.videoHeight * sf]

\* ------------------------------------------------------------------
\* preprocessing.  The native buffers it allocates are counted in news and
\* dels.  What cv.imread does with an image that has no pixels is not the
\* repository's code: it throws, or it returns an empty Mat.
\* ------------------------------------------------------------------
Buffers == {"mat", "matC3", "matPad", "input"}
NoBuffers == [b \in Buffers |-> 0]
Count(f, bs) == [b \in Buffers |-> IF b \in bs THEN f[b] + 1 ELSE f[b]]

Degenerate(source) == source.width = 0 \/ source.height = 0

CvOutcomes(source) ==
    IF Degenerate(source) THEN {"none", "imread"} ELSE {"none"}

NoMat == [rows |-> 0, cols |-> 0]

\* cv.blobFromImage(image, scale, size, ...): a 1 x 3 x size.height x size.width blob
BlobFromImage(image, size) == [rows |-> size.height, cols |-> size.width]

XRatioByRows(maxSize, rows, cols) == FDiv(maxSize, rows)
XRatio(maxSize, rows, cols) == FDiv(maxSize, cols)
YRatio(maxSize, rows, cols) == FDiv(maxSize, rows)

\* what preprocessing leaves behind when cv.imread throws, and what it
\* returns when it does not
Preprocessed(fail, input, xRatio, yRatio) ==
    IF fail = "imread"
    THEN [threw |-> TRUE, failedAt |-> fail, news |-> NoBuffers, dels |-> NoBuffers,
          input |-> NoMat, xRatio |-> Unset, yRatio |-> Unset]
    ELSE [threw |-> FALSE, failedAt |-> "none",
          news |-> Count(NoBuffers, Buffers),
          dels |-> Count(NoBuffers, {"mat", "matC3", "matPad"}),
          input |-> input, xRatio |-> xRatio, yRatio |-> yRatio]

Preprocessing(source, modelWidth, modelHeight, fail) ==
    LET mat == [rows |-> source.height, cols |-> source.width]   \* cv.imread
        matC3 == [rows |-> mat.rows, cols |-> mat.cols]
        maxSize == Max(matC3.rows, matC3.cols)
        xPad == maxSize - matC3.cols
        yPad == maxSize - matC3.rows
        matPad == [rows |-> matC3.rows + yPad, cols |-> matC3.cols + xPad]
    IN  Preprocessed(fail,
                     BlobFromImage(matPad, [width |-> modelWidth, height |-> modelHeight]),
                     XRatio(maxSize, matC3.rows, matC3.cols),
                     YRatio(maxSize, matC3.rows, matC3.cols))

\* ------------------------------------------------------------------
\* detectImage, up to its first await
\* ------------------------------------------------------------------
NoTensor == [dims |-> << >>, data |-> << >>]

\* new Tensor("float32", input.data32F, inputShape): the blob's data under
\* the dims of inputShape
InputTensor(input, inputShape) ==
    [dims |-> inputShape, length |-> 3 * input.rows * input.cols]

ModelSize(inputShape) ==
    LET wh == SliceFrom(inputShape, 2)
    IN  [modelWidth |-> wh[1], modelHeight |-> wh[2]]

\* detectImage suspended at `await session.net.run`, or rejected by a throw
\* of preprocessing
Suspended(origin, image, topk, inputShape, pre) ==
    [origin |-> origin,
     pc |-> IF pre.threw THEN "rejected" ELSE "awaitNet",
     failedAt |-> pre.failedAt,
     topk |-> topk, inputShape |-> inputShape, image |-> image,
     xRatio |-> pre.xRatio, yRatio |-> pre.yRatio,
     input |-> pre.input,
     tensor |-> IF pre.threw THEN [dims |-> << >>, length |-> 0]
                ELSE InputTensor(pre.input, inputShape),
     config |-> IF pre.threw THEN << >> ELSE <<topk, "iouThreshold", "scoreThreshold">>,
     news |-> pre.news, dels |-> pre.dels,
     selected |-> NoTensor, boxes |-> << >>]

DetectImageSync(origin, image, topk, inputShape, fail) ==
    Suspended(origin, image, topk, inputShape,
              Preprocessing(image, ModelSize(inputShape).modelWidth,
                            ModelSize(inputShape).modelHeight, fail))

NoCall ==
    [origin |-> "none", pc |-> "none", failedAt |-> "none", topk |-> 0,
     inputShape |-> << >>, image |-> [width |-> 0, height |-> 0],
     xRatio |-> Unset, yRatio |-> Unset, input |-> NoMat,
     tensor |-> [dims |-> << >>, length |-> 0], config |-> << >>,
     news |-> NoBuffers, dels |-> NoBuffers, selected |-> NoTensor, boxes |-> << >>]

\* ------------------------------------------------------------------
\* The backend.  session.nms keeps at most topk rows per class (the config
\* tensor's "topk per class"), each row [cx, cy, w, h, scores...].
\* ------------------------------------------------------------------
RowsOf(nc) == {b \o s : b \in RowBoxes, s \in [1..nc -> 0..MaxScore]}

RECURSIVE Flatten(_)
Flatten(rows) == IF rows = << >> THEN << >> ELSE Head(rows) \o Flatten(Tail(rows))

SelectedTensors(topk) ==
    UNION {UNION {{[dims |-> <<1, n, 4 + nc>>, data |-> Flatten(rs)] :
                      rs \in [1..n -> RowsOf(nc)]} :
                  n \in 0..Min(MaxRows, topk * nc)} :
           nc \in 1..MaxClasses}

SelectedFor == [topk \in 1..MaxTopk |-> SelectedTensors(topk)]

\* ------------------------------------------------------------------
\* detectImage, after session.nms.run: the decoding loop
\* ------------------------------------------------------------------
\* Math.max(...scores)
MathMax(scores) ==
    IF scores = << >> THEN "-Infinity"
    ELSE LET vals == {scores[i] : i \in 1..Len(scores)}
         IN  CHOOSE v \in vals : \A w \in vals : w <= v

\* scores.indexOf(score)
IndexOf(scores, score) ==
    LET hits == {i \in 1..Len(scores) : scores[i] = score}
    IN  IF hits = {} THEN -1
        ELSE (CHOOSE i \in hits : \A j \in hits : i <= j) - 1

\* box[a] - 0.5 * box[b] in units of 1/2 (exact for the rows of the model)
MinusHalf(a, b) == 2 * a - b

BoundingOneRatio(box, xRatio, yRatio) ==
    <<FMul(xRatio, MinusHalf(box[1], box[3]), 1),
      FMul(xRatio, MinusHalf(box[2], box[4]), 1),
      FMul(xRatio, box[3], 0),
      FMul(xRatio, box[4], 0)>>

Bounding(box, xRatio, yRatio) ==
    <<FMul(xRatio, MinusHalf(box[1], box[3]), 1),
      FMul(yRatio, MinusHalf(box[2], box[4]), 1),
      FMul(xRatio, box[3], 0),
      FMul(yRatio, box[4], 0)>>

Box(label, score, bounding) ==
    [label |-> label, probability |-> score, bounding |-> bounding]

\* scores.lastIndexOf(score)
LastIndexOf(scores, score) ==
    LET hits == {i \in 1..Len(scores) : scores[i] = score}
    IN  IF hits = {} THEN -1
        ELSE (CHOOSE i \in hits : \A j \in hits : i >= j) - 1

Label(scores, score) == IndexOf(scores, score)

DecodeScores(box, scores, score, xRatio, yRatio) ==
    Box(Label(scores, score), score, Bounding(box, xRatio, yRatio))

DecodeRow(data, xRatio, yRatio) ==
    DecodeScores(Slice(data, 0, 4), SliceFrom(data, 4), MathMax(SliceFrom(data, 4)),
                 xRatio, yRatio)

RowCountLessOne(selected) == Max(selected.dims[2] - 1, 0)
RowCount(selected) == selected.dims[2]

DecodeBoxes(selected, xRatio, yRatio) ==
    [i \in 1..RowCount(selected) |->
        DecodeRow(Slice(selected.data, (i - 1) * selected.dims[3], i * selected.dims[3]),
                  xRatio, yRatio)]

\* renderBoxes(canvas, boxes)
RenderBoxes(cv, boxes) == [cleared |-> FALSE, boxes |-> boxes]

\* ctx.clearRect over the whole canvas
ClearRect(cv) == [cleared |-> TRUE, boxes |-> << >>]

\* the callback detect hands to detectFrame: requestAnimationFrame(detect)
PumpCallbackTwice(r) == r + 2
PumpCallback(r) == r + 1

\* input.delete()
DeleteInput(dels) == Count(dels, {"input"})

\* ------------------------------------------------------------------
\* The state machine
\* ------------------------------------------------------------------
Init ==
    /\ vidSource = [videoWidth |-> 0, videoHeight |-> 0, srcObject |-> "null"]
    /\ pump = [state |-> "Idle", topk |-> 0, inputShape |-> << >>]
    /\ raf = 0
    /\ ticks = 0
    /\ stills = 0
    /\ calls = << >>
    /\ last = NoCall
    /\ canvas = [cleared |-> FALSE, boxes |-> << >>]
    /\ unhandled = FALSE

\* the video element loads, plays on, or loses its source
VideoChange ==
    /\ \E v \in VideoElements : v # vidSource /\ vidSource' = v
    /\ UNCHANGED <<pump, raf, ticks, stills, calls, last, canvas, unhandled>>

\* vidSource.videoWidth === 0 && vidSource.srcObject === null
SourceClosedInverted(v) == v.videoWidth = 0 /\ v.srcObject # "null"
SourceClosed(v) == v.videoWidth = 0 /\ v.srcObject = "null"

\* detectFrame: capture, then detectImage (its promise is what detect drops)
DetectFrame(v, topk, inputShape, fail) ==
    DetectImageSync("pump", CaptureVideo(v, "null"), topk, inputShape, fail)

\* detect has called detectFrame, which returned the promise of call c
Dropped(c) ==
    IF c.pc = "rejected"
    THEN /\ last' = c
         /\ unhandled' = TRUE
         /\ UNCHANGED calls
    ELSE /\ calls' = Append(calls, c)
         /\ UNCHANGED <<last, unhandled>>

\* one run of detect for the pump p
Detect(p) ==
    /\ ticks < MaxTicks
    /\ ticks' = ticks + 1
    /\ IF SourceClosed(vidSource)
       THEN /\ canvas' = ClearRect(canvas)
            /\ pump' = [p EXCEPT !.state = "Stopped"]
            /\ UNCHANGED <<calls, last, unhandled>>
       ELSE /\ pump' = p
            /\ \E fail \in CvOutcomes(CaptureVideo(vidSource, "null")) :
                 Dropped(DetectFrame(vidSource, p.topk, p.inputShape, fail))
            /\ UNCHANGED canvas

\* detectVideo(vidSource, canvasRef, session, topk, ..., inputShape)
DetectVideo ==
    /\ pump.state = "Idle"
    /\ \E topk \in 1..MaxTopk, inputShape \in InputShapes :
         Detect([state |-> "Running", topk |-> topk, inputShape |-> inputShape])
    /\ UNCHANGED <<vidSource, raf, stills>>

\* the browser runs a frame callback requested by the pump
AnimationFrame ==
    /\ raf > 0
    /\ raf' = raf - 1
    /\ Detect(pump)
    /\ UNCHANGED <<vidSource, stills>>

\* a caller holds the promise of call c
Returned(c) ==
    IF c.pc = "rejected"
    THEN last' = c /\ UNCHANGED calls
    ELSE calls' = Append(calls, c) /\ UNCHANGED last

\* a caller's own detectImage(image, canvas, session, topk, ..., inputShape)
DetectImage(sizes) ==
    /\ stills < MaxStill
    /\ stills' = stills + 1
    /\ \E sz \in sizes, topk \in 1..MaxTopk, inputShape \in InputShapes :
         \E fail \in CvOutcomes([width |-> sz[1], height |-> sz[2]]) :
            Returned(DetectImageSync("still", [width |-> sz[1], height |-> sz[2]],
                                     topk, inputShape, fail))
    /\ UNCHANGED <<vidSource, pump, raf, ticks, canvas, unhandled>>

\* session.net.run resolves: detectImage goes on to session.nms.run
NetResolve ==
    \E i \in 1..Len(calls) :
        /\ calls[i].pc = "awaitNet"
        /\ calls' = [calls EXCEPT ![i].pc = "awaitNms"]
        /\ UNCHANGED <<vidSource, pump, raf, ticks, stills, last, canvas, unhandled>>

\* a backend call rejects: detectImage's promise rejects at the await
Reject(i, at) ==
    /\ last' = [calls[i] EXCEPT !.pc = "rejected", !.failedAt = at]
    /\ calls' = RemoveAt(calls, i)
    /\ unhandled' = (unhandled \/ calls[i].origin = "pump")
    /\ UNCHANGED <<vidSource, pump, raf, ticks, stills, canvas>>

NetReject == \E i \in 1..Len(calls) : calls[i].pc = "awaitNet" /\ Reject(i, "net")

NmsReject == \E i \in 1..Len(calls) : calls[i].pc = "awaitNms" /\ Reject(i, "nms")

\* detectImage from the decoding loop to its end, for call i with the
\* boxes decoded from selected
Finish(i, c, selected, boxes) ==
    /\ canvas' = RenderBoxes(canvas, boxes)
    /\ raf' = IF c.origin = "pump" THEN PumpCallback(raf) ELSE raf
    /\ last' = [c EXCEPT !.pc = "done", !.selected = selected,
                         !.boxes = boxes, !.dels = DeleteInput(c.dels)]
    /\ calls' = RemoveAt(calls, i)

\* session.nms.run resolves: decode, render, callback, release the input
NmsResolve(rowBoxes) ==
    \E i \in 1..Len(calls) :
        /\ calls[i].pc = "awaitNms"
        /\ \E selected \in SelectedFor[calls[i].topk] :
             /\ \A r \in 1..RowCount(selected) :
                    Slice(selected.data, (r - 1) * selected.dims[3],
                          (r - 1) * selected.dims[3] + 4) \in rowBoxes
             /\ Finish(i, calls[i], selected,
                       DecodeBoxes(selected, calls[i].xRatio, calls[i].yRatio))
        /\ UNCHANGED <<vidSource, pump, ticks, stills, unhandled>>

\* the pump: one detectVideo over a video element that changes under it
Next ==
    \/ VideoChange
    \/ DetectVideo
    \/ AnimationFrame
    \/ NetResolve
    \/ NetReject
    \/ NmsResolve(PumpRowBoxes)
    \/ NmsReject

Spec == Init /\ [][Next]_vars

\* the still-image path: a caller's detectImage on an image of any size up
\* to MaxDim
AllSizes == (0..MaxDim) \X (0..MaxDim)

NextStill ==
    \/ DetectImage(AllSizes)
    \/ NetResolve
    \/ NetReject
    \/ NmsResolve(RowBoxes)
    \/ NmsReject

SpecStill == Init /\ [][NextStill]_vars

\* ------------------------------------------------------------------
\* Properties
\* ------------------------------------------------------------------
InFlightPump == {i \in 1..Len(calls) : calls[i].origin = "pump"}

\* the calls whose locals can be looked at: those in flight and the last settled
Known == {calls[i] : i \in 1..Len(calls)} \cup (IF last.origin = "none" THEN {} ELSE {last})

RowOf(selected, i) == Slice(selected.data, (i - 1) * selected.dims[3], i * selected.dims[3])

\* C1: at most one inference of the pump is in flight; a frame callback of
\* the pump is pending only when none is, and only after the previous
\* tick's detectImage has rendered and called its callback
C1_OneInferenceInFlight ==
    /\ Cardinality(InFlightPump) <= 1
    /\ raf <= 1
    /\ raf > 0 => (InFlightPump = {} /\ last.origin = "pump" /\ last.pc = "done"
                   /\ canvas.boxes = last.boxes)

C1_Witness == ticks >= 2 /\ InFlightPump # {} /\ last.pc = "done"

\* C2: a rejection of session.net.run or session.nms.run in a tick of the
\* pump leaves no unhandled rejection and leaves the pump running: a frame
\* callback is pending or a later tick is already under way
C2_RejectionSkipsFrame ==
    (last.origin = "pump" /\ last.pc = "rejected" /\ last.failedAt \in {"net", "nms"})
        => /\ ~unhandled
           /\ raf > 0 \/ InFlightPump # {} \/ pump.state = "Stopped"

\* C3: a tick that finds videoWidth = 0 and srcObject = null stops the pump:
\* it clears the canvas, starts no detectImage, requests no frame; and once
\* the pump is stopped no tick runs and no frame callback is pending
C3_StopsWhenSourceClosed ==
    [][/\ (ticks' = ticks + 1 /\ vidSource.videoWidth = 0 /\ vidSource.srcObject = "null")
            => /\ pump'.state = "Stopped"
               /\ canvas' = [cleared |-> TRUE, boxes |-> << >>]
               /\ calls' = calls /\ last' = last
               /\ raf' = 0
       /\ pump.state = "Stopped"
            => /\ pump' = pump
               /\ ticks' = ticks
               /\ raf' = 0 /\ calls' = << >>]_vars

C3_Witness ==
    /\ pump.state = "Stopped" /\ ticks >= 2 /\ last.pc = "done"
    /\ canvas.cleared /\ raf = 0 /\ calls = << >>

\* C4 as stated: the boxes handed to the renderer never number more than topk
C4_AtMostTopk == last.pc = "done" => Len(canvas.boxes) <= last.topk

\* C4, amended: the boxes handed to the renderer are one per row of the
\* selected tensor, selected.dims[1] of them, whatever topk is
C4_OneBoxPerRow ==
    last.pc = "done" => /\ canvas.boxes = last.boxes
                        /\ Len(canvas.boxes) = last.selected.dims[2]
                        /\ Len(last.selected.data) = Len(canvas.boxes) * last.selected.dims[3]

C4_Witness == last.pc = "done" /\ Len(canvas.boxes) > last.topk

\* C5: when a detectImage call has settled, every native buffer it
\* allocated has been released exactly once
C5_BuffersReleasedOnce ==
    last.pc \in {"done", "rejected"} => \A b \in Buffers : last.dels[b] = last.news[b]

\* C6: a call on an image of zero width or height fails before any ratio is
\* computed, any resize is made or any inference is started, and produces
\* no tensor
C6_InvalidImageSource ==
    \A c \in Known :
        Degenerate(c.image)
            => /\ c.pc = "rejected"
               /\ c.failedAt = "imread"
               /\ c.xRatio = Unset /\ c.yRatio = Unset
               /\ c.tensor.length = 0

\* C7: the bounding of every decoded box is
\* [(cx - 0.5*w)*xRatio, (cy - 0.5*h)*yRatio, w*xRatio, h*yRatio]
C7_BoundingFormula ==
    last.pc = "done" =>
        \A i \in 1..Len(canvas.boxes) :
            LET row == RowOf(last.selected, i)
                cx == row[1]
                cy == row[2]
                w == row[3]
                h == row[4]
            IN  canvas.boxes[i].bounding =
                    <<FMul(last.xRatio, 2 * cx - w, 1), FMul(last.yRatio, 2 * cy - h, 1),
                      FMul(last.xRatio, w, 0), FMul(last.yRatio, h, 0)>>

\* cx=100, cy=50, w=40, h=20, xRatio=2, yRatio=1 gives [160, 40, 80, 20]
C7_Witness ==
    /\ last.pc = "done" /\ Len(canvas.boxes) >= 1
    /\ last.xRatio = FromInt(2) /\ last.yRatio = FromInt(1)
    /\ SubSeq(RowOf(last.selected, 1), 1, 4) = <<100, 50, 40, 20>>
    /\ canvas.boxes[1].bounding = <<FromInt(160), FromInt(40), FromInt(80), FromInt(20)>>

\* C8: the label of every decoded box is the lowest index whose class score
\* is the maximum score of its row, and its probability is that maximum
C8_LowestArgmax ==
    last.pc = "done" =>
        \A i \in 1..Len(canvas.boxes) :
            LET scores == SubSeq(RowOf(last.selected, i), 5, last.selected.dims[3])
                box == canvas.boxes[i]
            IN  /\ box.label + 1 \in 1..Len(scores)
                /\ scores[box.label + 1] = box.probability
                /\ \A j \in 1..Len(scores) : scores[j] <= box.probability
                /\ \A j \in 1..box.label : scores[j] < box.probability

\* scores = [0.5, 0.5] gives label 0
C8_Witness ==
    /\ last.pc = "done" /\ Len(canvas.boxes) >= 1
    /\ SubSeq(RowOf(last.selected, 1), 5, last.selected.dims[3]) = <<1, 1>>
    /\ canvas.boxes[1].label = 0 /\ canvas.boxes[1].probability = 1

Positive(c) == c.image.width > 0 /\ c.image.height > 0 /\ c.xRatio # Unset

Longest(c) == Max(c.image.width, c.image.height)

\* two doubles of one sign that are equal or next to each other
Adjacent(f, g) ==
    \/ f = g
    \/ f.k = "num" /\ g.k = "num" /\ f.s = g.s
       /\ (RoundUp(f.s, f.m, f.e) = g \/ RoundUp(g.s, g.m, g.e) = f)

RatiosDiffer(c) ==
    /\ c.image.width # c.image.height => c.xRatio # c.yRatio
    /\ c.image.width = c.image.height => (c.xRatio = One /\ c.yRatio = One)

C10_BlobFollowsShape ==
    \A c \in Known :
        c.pc # "rejected" => /\ c.input.rows = c.inputShape[3]
                             /\ c.input.cols = c.inputShape[4]
====
